---- MODULE Spec2Model ----
(***************************************************************************)
(* The CdkStack constructor of cdk/lib/cdk-stack.ts as a state machine.    *)
(* The constructor is a straight-line program; each statement is one       *)
(* action, and the program counter pc names the statement about to run.    *)
(* The state is the declaration graph under construction: the constructs   *)
(* registered in the stack scope (nodes, in creation order), the methods   *)
(* of the REST API, the additional behaviors of the distribution and the   *)
(* access grants.  A finished graph can be evaluated again with the same   *)
(* inputs (prev keeps the graph of the evaluation before) or handed to the *)
(* orchestration engine (deployed).                                        *)
(***************************************************************************)
EXTENDS Integers, Sequences, FiniteSets, TLC

VARIABLES pc, inputs, nodes, methods, behaviors, grants, lambdaIntegration,
          prev, deployed

vars == <<pc, inputs, nodes, methods, behaviors, grants, lambdaIntegration,
          prev, deployed>>

(***************************************************************************)
(* Bounds and program constants.                                           *)
(***************************************************************************)
\* Math.random() is drawn from the grid {0/RandomGrid, ..., (RandomGrid-1)/RandomGrid}.
RandomGrid == 4

\* The factor of Math.floor(Math.random() * 1000).
RandomScale == 1000

\* The (id, props) arguments the constructor is called with.
StackIds == {"CdkStack", "DevStack"}
StackProps == {"undefined", "env"}
Inputs == [id : StackIds, props : StackProps]

\* Identifiers the cloud provider may generate for an unnamed resource.
GeneratedIds == {"a1b2", "c3d4"}

(***************************************************************************)
(* Values.  A string handed to a construct is either a literal or a token  *)
(* that stands for an attribute of another declaration and is resolved     *)
(* only at deployment.                                                     *)
(***************************************************************************)
Lit(s) == [tag |-> "lit", of |-> "", val |-> s]
Attr(id, a) == [tag |-> "token", of |-> id, val |-> a]

\* Math.floor(Math.random() * 1000) for Math.random() = k / RandomGrid
RandomSuffix(k) == (k * RandomScale) \div RandomGrid

\* `test-bucket-${n}`
BucketNameOf(n) == "test-bucket-" \o ToString(n)

(***************************************************************************)
(* The declarations, one per `new X(this, id, props)` of the constructor.  *)
(* refs are the sibling declarations the props mention.                    *)
(***************************************************************************)
\* Variant: the bucket declared publicly readable.
BucketDeclPublic(n) ==
  [id |-> "Bucket", kind |-> "s3.Bucket",
   props |-> [bucketName |-> BucketNameOf(n), publicReadAccess |-> TRUE],
   refs |-> {}]

BucketDecl(n) ==
  [id |-> "Bucket", kind |-> "s3.Bucket",
   props |-> [bucketName |-> BucketNameOf(n), publicReadAccess |-> FALSE],
   refs |-> {}]

TableDecl ==
  [id |-> "Table", kind |-> "dynamodb.Table",
   props |-> [tableName |-> "TestApp",
              partitionKey |-> [name |-> "TestId", type |-> "STRING"]],
   refs |-> {}]

\* Variant: the environment entry bound to the table's ARN instead of its name.
LambdaDeclTableArn ==
  [id |-> "Lambda", kind |-> "lambda.Function",
   props |-> [code |-> "/lambda/app", handler |-> "index.mjs",
              runtime |-> "NODEJS_18_X",
              environment |-> [TABLE_NAME |-> Attr("Table", "tableArn")]],
   refs |-> {"Table"}]

LambdaDecl ==
  [id |-> "Lambda", kind |-> "lambda.Function",
   props |-> [code |-> "/lambda/app", handler |-> "index.mjs",
              runtime |-> "NODEJS_18_X",
              environment |-> [TABLE_NAME |-> Attr("Table", "tableName")]],
   refs |-> {"Table"}]

ApiDecl ==
  [id |-> "Api", kind |-> "apigw.RestApi",
   props |-> [restApiName |-> "ApiGatewayWithLambda",
              defaultCorsPreflightOptions |->
                [allowOrigins |-> "ALL_ORIGINS", allowMethods |-> "ALL_METHODS"]],
   refs |-> {}]

LambdaIntegrationOf(handlerId) ==
  [handler |-> handlerId,
   requestTemplates |-> [contentType |-> "application/json",
                         template |-> "{ \"statusCode\": \"200\" }"]]

DistributionDecl ==
  [id |-> "Distribution", kind |-> "cloudfront.Distribution",
   props |-> [defaultBehavior |->
                [origin |-> [tag |-> "S3Origin", of |-> "Bucket", val |-> ""]]],
   refs |-> {"Bucket"}]

\* Variant: the gateway behavior declared for the wildcard pattern.
ApiBehaviorWildcard ==
  [pathPattern |-> "/api/*",
   origin |-> [tag |-> "HttpOrigin", of |-> "Api", val |-> "url"]]

ApiBehavior ==
  [pathPattern |-> "/api",
   origin |-> [tag |-> "HttpOrigin", of |-> "Api", val |-> "url"]]

UserPoolDecl ==
  [id |-> "UserPool", kind |-> "cognito.UserPool",
   props |-> [selfSignUpEnabled |-> TRUE, autoVerify |-> [email |-> TRUE]],
   refs |-> {}]

\* Variant: the client declared with the directory's construct class.
UserPoolClientDeclAsUserPool ==
  [id |-> "UserPoolClient", kind |-> "cognito.UserPool",
   props |-> [userPool |-> "UserPool",
              oAuth |-> [callbackUrls |->
                           <<Lit("http://localhost:3000"),
                             Attr("Distribution", "distributionDomainName")>>,
                         logoutUrls |->
                           <<Lit("http://localhost:3000"),
                             Attr("Distribution", "distributionDomainName")>>]],
   refs |-> {"UserPool", "Distribution"}]

\* Variant: the logout URLs lack the distribution's domain.
UserPoolClientDeclLocalLogout ==
  [id |-> "UserPoolClient", kind |-> "cognito.UserPoolClient",
   props |-> [userPool |-> "UserPool",
              oAuth |-> [callbackUrls |->
                           <<Lit("http://localhost:3000"),
                             Attr("Distribution", "distributionDomainName")>>,
                         logoutUrls |-> <<Lit("http://localhost:3000")>>]],
   refs |-> {"UserPool", "Distribution"}]

UserPoolClientDecl ==
  [id |-> "UserPoolClient", kind |-> "cognito.UserPoolClient",
   props |-> [userPool |-> "UserPool",
              oAuth |-> [callbackUrls |->
                           <<Lit("http://localhost:3000"),
                             Attr("Distribution", "distributionDomainName")>>,
                         logoutUrls |->
                           <<Lit("http://localhost:3000"),
                             Attr("Distribution", "distributionDomainName")>>]],
   refs |-> {"UserPool", "Distribution"}]

OutputDecl(id, v) ==
  [id |-> id, kind |-> "cdk.CfnOutput", props |-> [value |-> v], refs |-> {v.of}]

\* Variant: the bucket-name output given the bucket's own logical name.
OutBucketNameAsBucket == OutputDecl("Bucket", Attr("Bucket", "bucketName"))

OutBucketName == OutputDecl("BucketName", Attr("Bucket", "bucketName"))
OutUserPoolId == OutputDecl("UserPoolId", Attr("UserPool", "userPoolId"))
OutUserPoolWebClientId ==
  OutputDecl("UserPoolWebClientId", Attr("UserPoolClient", "userPoolClientId"))
OutCloudFrontURL ==
  OutputDecl("CloudFrontURL", Attr("Distribution", "distributionDomainName"))
OutCloudFrontDistributionId ==
  OutputDecl("CloudFrontDistributionId", Attr("Distribution", "distributionId"))
\* Variant: the endpoint output bound to the gateway's id instead of its URL.
OutApiEndpointRestApiId == OutputDecl("ApiEndpoint", Attr("Api", "restApiId"))

OutApiEndpoint == OutputDecl("ApiEndpoint", Attr("Api", "url"))

(***************************************************************************)
(* The statements of the constructor in program order.  After(s) is the    *)
(* statement that runs when s has returned.                                *)
(***************************************************************************)
\* Variant: the function declared before the table it names.
ProgramLambdaBeforeTable ==
  <<"super", "Bucket", "Lambda", "Table", "grantFullAccess", "Api",
    "LambdaIntegration", "addMethod", "Distribution", "addBehavior", "UserPool",
    "UserPoolClient", "BucketName", "UserPoolId", "UserPoolWebClientId",
    "CloudFrontURL", "CloudFrontDistributionId", "ApiEndpoint">>

Program ==
  <<"super", "Bucket", "Table", "Lambda", "grantFullAccess", "Api",
    "LambdaIntegration", "addMethod", "Distribution", "addBehavior", "UserPool",
    "UserPoolClient", "BucketName", "UserPoolId", "UserPoolWebClientId",
    "CloudFrontURL", "CloudFrontDistributionId", "ApiEndpoint">>

After(s) ==
  LET i == CHOOSE j \in DOMAIN Program : Program[j] = s
  IN  IF i = Len(Program) THEN "done" ELSE Program[i + 1]

(***************************************************************************)
(* Helpers on the graph under construction.                                *)
(***************************************************************************)
Ids(ns) == {ns[i].id : i \in DOMAIN ns}
IndexOf(ns, id) == CHOOSE i \in DOMAIN ns : ns[i].id = id
OfKind(ns, k) == {i \in DOMAIN ns : ns[i].kind = k}
NodeOf(id) == nodes[IndexOf(nodes, id)]

\* new X(this, id, ...): the scope refuses a second construct of the same
\* id by throwing; otherwise the construct becomes the scope's next child.
Construct(stmt, d) ==
  /\ pc = stmt
  /\ IF d.id \in Ids(nodes)
       THEN pc' = "threw" /\ nodes' = nodes
       ELSE pc' = After(stmt) /\ nodes' = Append(nodes, d)

\* The methods a REST API has at its root right after construction: with
\* defaultCorsPreflightOptions the root resource gets an OPTIONS method
\* answered by a mock integration.
PreflightMethods(props) ==
  IF "defaultCorsPreflightOptions" \in DOMAIN props
    THEN {[path |-> "/", httpMethod |-> "OPTIONS", integration |-> "Mock",
           handler |-> ""]}
    ELSE {}

\* Variant: the integration wired to GET whatever verb is asked for.
RootMethodGet(httpMethod, integration) ==
  [path |-> "/", httpMethod |-> "GET", integration |-> "Lambda",
   handler |-> integration.handler]

\* resource.addMethod(httpMethod, integration) on the root resource
RootMethod(httpMethod, integration) ==
  [path |-> "/", httpMethod |-> httpMethod, integration |-> "Lambda",
   handler |-> integration.handler]

\* The statements a bucket's own props put into its resource policy:
\* publicReadAccess grants s3:GetObject to everyone.
PublicReadGrants(d) ==
  IF d.props.publicReadAccess
    THEN {[principal |-> "*", resource |-> d.id, actions |-> "s3:GetObject"]}
    ELSE {}

\* Binding a bucket as the origin of a distribution lets the distribution's
\* origin access identity, and nobody else, read the bucket.
OriginGrants(d) ==
  IF d.props.defaultBehavior.origin.tag = "S3Origin"
    THEN {[principal |-> d.id, resource |-> d.props.defaultBehavior.origin.of,
           actions |-> "s3:GetObject"]}
    ELSE {}

\* table.grantFullAccess(grantee)
FullAccessGrant(tableId, granteeId) ==
  [principal |-> granteeId, resource |-> tableId, actions |-> "dynamodb:*"]

\* The declaration graph an evaluation has produced.
Graph ==
  [stack |-> inputs, nodes |-> nodes, methods |-> methods,
   behaviors |-> behaviors, grants |-> grants]

(***************************************************************************)
(* The constructor, statement by statement.                                *)
(***************************************************************************)
Init ==
  /\ pc = "super"
  /\ inputs \in Inputs
  /\ nodes = <<>>
  /\ methods = {}
  /\ behaviors = <<>>
  /\ grants = {}
  /\ lambdaIntegration = <<>>
  /\ prev = <<>>
  /\ deployed = <<>>

\* super(scope, id, props)
Super ==
  /\ pc = "super"
  /\ pc' = After("super")
  /\ UNCHANGED <<inputs, nodes, methods, behaviors, grants, lambdaIntegration,
                 prev, deployed>>

NewBucket ==
  \E k \in 0 .. RandomGrid - 1 :
    /\ Construct("Bucket", BucketDecl(RandomSuffix(k)))
    /\ grants' = IF pc' = "threw" THEN grants
                 ELSE grants \cup PublicReadGrants(BucketDecl(RandomSuffix(k)))
    /\ UNCHANGED <<inputs, methods, behaviors, lambdaIntegration, prev, deployed>>

NewTable ==
  /\ Construct("Table", TableDecl)
  /\ UNCHANGED <<inputs, methods, behaviors, grants, lambdaIntegration, prev,
                 deployed>>

NewLambda ==
  /\ Construct("Lambda", LambdaDecl)
  /\ UNCHANGED <<inputs, methods, behaviors, grants, lambdaIntegration, prev,
                 deployed>>

GrantFullAccess ==
  /\ pc = "grantFullAccess"
  /\ grants' = grants \cup {FullAccessGrant("Table", "Lambda")}
  /\ pc' = After("grantFullAccess")
  /\ UNCHANGED <<inputs, nodes, methods, behaviors, lambdaIntegration, prev,
                 deployed>>

NewApi ==
  /\ Construct("Api", ApiDecl)
  /\ methods' = IF pc' = "threw" THEN methods ELSE PreflightMethods(ApiDecl.props)
  /\ UNCHANGED <<inputs, behaviors, grants, lambdaIntegration, prev, deployed>>

NewLambdaIntegration ==
  /\ pc = "LambdaIntegration"
  /\ lambdaIntegration' = <<LambdaIntegrationOf("Lambda")>>
  /\ pc' = After("LambdaIntegration")
  /\ UNCHANGED <<inputs, nodes, methods, behaviors, grants, prev, deployed>>

\* api.root.addMethod("POST", lambdaIntegration)
AddMethod ==
  /\ pc = "addMethod"
  /\ methods' = methods \cup {RootMethod("POST", lambdaIntegration[1])}
  /\ pc' = After("addMethod")
  /\ UNCHANGED <<inputs, nodes, behaviors, grants, lambdaIntegration, prev,
                 deployed>>

NewDistribution ==
  /\ Construct("Distribution", DistributionDecl)
  /\ grants' = IF pc' = "threw" THEN grants
               ELSE grants \cup OriginGrants(DistributionDecl)
  /\ UNCHANGED <<inputs, methods, behaviors, lambdaIntegration, prev, deployed>>

\* distribution.addBehavior("/api", new origins.HttpOrigin(api.url))
AddBehavior ==
  /\ pc = "addBehavior"
  /\ behaviors' = Append(behaviors, ApiBehavior)
  /\ pc' = After("addBehavior")
  /\ UNCHANGED <<inputs, nodes, methods, grants, lambdaIntegration, prev,
                 deployed>>

NewUserPool ==
  /\ Construct("UserPool", UserPoolDecl)
  /\ UNCHANGED <<inputs, methods, behaviors, grants, lambdaIntegration, prev,
                 deployed>>

NewUserPoolClient ==
  /\ Construct("UserPoolClient", UserPoolClientDecl)
  /\ UNCHANGED <<inputs, methods, behaviors, grants, lambdaIntegration, prev,
                 deployed>>

NewOutput(stmt, d) ==
  /\ Construct(stmt, d)
  /\ UNCHANGED <<inputs, methods, behaviors, grants, lambdaIntegration, prev,
                 deployed>>

OutputBucketName == NewOutput("BucketName", OutBucketName)
OutputUserPoolId == NewOutput("UserPoolId", OutUserPoolId)
OutputUserPoolWebClientId ==
  NewOutput("UserPoolWebClientId", OutUserPoolWebClientId)
OutputCloudFrontURL ==
  NewOutput("CloudFrontURL", OutCloudFrontURL)
OutputCloudFrontDistributionId ==
  NewOutput("CloudFrontDistributionId", OutCloudFrontDistributionId)
OutputApiEndpoint == NewOutput("ApiEndpoint", OutApiEndpoint)

(***************************************************************************)
(* The orchestration engine.  A finished graph is provisioned: a resource  *)
(* declared with a physical name gets that name, every other attribute    *)
(* gets a value the provider generates, and the run fails when the         *)
(* provider refuses (a bucket name already taken, a quota).  Tokens are    *)
(* resolved against a successful run.                                      *)
(***************************************************************************)
AttrValue(id, a, g) ==
  CASE a = "bucketName" -> NodeOf(id).props.bucketName
    [] a = "tableName" -> NodeOf(id).props.tableName
    [] a = "distributionDomainName" -> g \o ".cloudfront.net"
    [] a = "url" -> "https://" \o g \o ".execute-api.amazonaws.com/prod/"
    [] OTHER -> a \o "-" \o g

Provisioned == deployed # <<>> /\ deployed[1].status = "ok"

Resolve(v) ==
  IF v.tag = "lit" THEN v.val ELSE AttrValue(v.of, v.val, deployed[1].generated)

Provision ==
  /\ pc = "done"
  /\ deployed = <<>>
  /\ \E g \in GeneratedIds : deployed' = <<[status |-> "ok", generated |-> g]>>
  /\ UNCHANGED <<pc, inputs, nodes, methods, behaviors, grants,
                 lambdaIntegration, prev>>

ProvisionFails ==
  /\ pc = "done"
  /\ deployed = <<>>
  /\ deployed' = <<[status |-> "failed", generated |-> ""]>>
  /\ UNCHANGED <<pc, inputs, nodes, methods, behaviors, grants,
                 lambdaIntegration, prev>>

\* The descriptor is evaluated again with the same (scope, id, props).
Reevaluate ==
  /\ pc = "done"
  /\ prev' = <<Graph>>
  /\ pc' = "super"
  /\ nodes' = <<>>
  /\ methods' = {}
  /\ behaviors' = <<>>
  /\ grants' = {}
  /\ lambdaIntegration' = <<>>
  /\ deployed' = <<>>
  /\ UNCHANGED inputs

Next ==
  \/ Super
  \/ NewBucket
  \/ NewTable
  \/ NewLambda
  \/ GrantFullAccess
  \/ NewApi
  \/ NewLambdaIntegration
  \/ AddMethod
  \/ NewDistribution
  \/ AddBehavior
  \/ NewUserPool
  \/ NewUserPoolClient
  \/ OutputBucketName
  \/ OutputUserPoolId
  \/ OutputUserPoolWebClientId
  \/ OutputCloudFrontURL
  \/ OutputCloudFrontDistributionId
  \/ OutputApiEndpoint
  \/ Provision
  \/ ProvisionFails
  \/ Reevaluate

Spec == Init /\ [][Next]_vars

(***************************************************************************)
(* Properties of the declaration graph.                                    *)
(***************************************************************************)
Created(id) == id \in Ids(nodes)

\* b is created only after a
Before(a, b) ==
  Created(b) => (Created(a) /\ IndexOf(nodes, a) < IndexOf(nodes, b))

ResourceKinds ==
  {"s3.Bucket", "dynamodb.Table", "lambda.Function", "apigw.RestApi",
   "cloudfront.Distribution", "cognito.UserPool", "cognito.UserPoolClient"}

OutputIds ==
  {"BucketName", "UserPoolId", "UserPoolWebClientId", "CloudFrontURL",
   "CloudFrontDistributionId", "ApiEndpoint"}

LocalUrl == Lit("http://localhost:3000")
CdnDomain == Attr("Distribution", "distributionDomainName")
Elems(q) == {q[i] : i \in DOMAIN q}

\* C1 (as claimed): two evaluations of the constructor with the same inputs
\* produce the same declaration graph, the bucket's name included.
C1_Idempotent == (pc = "done" /\ prev # <<>>) => Graph = prev[1]

\* C2 (as claimed): after construction the gateway has exactly one method,
\* POST at the root path, integrated with the function; no other method, not
\* even one implied by the CORS preflight options, and no sub-path.
C2_OnlyPostAtRoot ==
  pc = "done" =>
    /\ Cardinality(methods) = 1
    /\ \A m \in methods :
         m.path = "/" /\ m.httpMethod = "POST" /\ m.handler = "Lambda"

\* C2 (amended): after construction every method of the gateway is at the
\* root path; exactly one of them is integrated with the function, and it is
\* POST; the only other method is the OPTIONS method the CORS preflight
\* options create, answered by a mock integration.
C2_PostPlusPreflightAtRoot ==
  pc = "done" =>
    /\ \A m \in methods : m.path = "/"
    /\ {m \in methods : m.integration = "Lambda"} =
         {[path |-> "/", httpMethod |-> "POST", integration |-> "Lambda",
           handler |-> "Lambda"]}
    /\ NodeOf("Lambda").kind = "lambda.Function"
    /\ {m \in methods : m.integration # "Lambda"} =
         {[path |-> "/", httpMethod |-> "OPTIONS", integration |-> "Mock",
           handler |-> ""]}

C2_Witness ==
  /\ pc = "done"
  /\ \E m \in methods : m.httpMethod = "POST"
  /\ \E m \in methods : m.httpMethod = "OPTIONS"

\* C3: declarations are created in the order Bucket, Table, Lambda, Api,
\* Distribution, UserPoolClient, outputs, and at every step every reference
\* (props, methods, behaviors, grants) points to a declaration created
\* earlier, so the reference graph has no forward edge and no cycle.
C3_DependencyOrder ==
  /\ \A i \in DOMAIN nodes : nodes[i].refs \subseteq {nodes[j].id : j \in 1 .. i - 1}
  /\ \A g \in grants : Created(g.principal) /\ Created(g.resource)
  /\ \A m \in methods :
       Created("Api") /\ (m.handler # "" => Before(m.handler, "Api"))
  /\ \A k \in DOMAIN behaviors :
       Created("Distribution") /\ Before(behaviors[k].origin.of, "Distribution")
  /\ \A k \in DOMAIN lambdaIntegration : Created(lambdaIntegration[k].handler)
  /\ Before("Bucket", "Table")
  /\ Before("Table", "Lambda")
  /\ Before("Lambda", "Api")
  /\ Before("Api", "Distribution")
  /\ Before("Distribution", "UserPoolClient")
  /\ \A o \in OutputIds : Before("UserPoolClient", o)

C3_Witness ==
  /\ pc = "done"
  /\ \A o \in OutputIds : Created(o)
  /\ IndexOf(nodes, "Table") < IndexOf(nodes, "Lambda")
  /\ "Table" \in NodeOf("Lambda").refs

\* C4: the produced graph holds exactly one declaration of each of the
\* seven resource kinds, and no kind is ever declared twice.
C4_OneOfEachKind ==
  /\ \A k \in ResourceKinds : Cardinality(OfKind(nodes, k)) <= 1
  /\ pc = "done" => \A k \in ResourceKinds : Cardinality(OfKind(nodes, k)) = 1

C4_Witness ==
  /\ pc = "done"
  /\ prev # <<>>
  /\ Cardinality({nodes[i].kind : i \in DOMAIN nodes} \cap ResourceKinds) = 7

\* C5: the distribution's default behavior has the bucket as origin, its one
\* additional behavior has path pattern "/api" and the gateway's URL as
\* origin, and the two origins are distinct resources.
C5_CdnBehaviors ==
  /\ (Created("Distribution") /\ behaviors # <<>>) =>
       \A k \in DOMAIN behaviors :
         behaviors[k].origin.of # NodeOf("Distribution").props.defaultBehavior.origin.of
  /\ pc = "done" =>
       /\ NodeOf("Distribution").props.defaultBehavior.origin =
            [tag |-> "S3Origin", of |-> "Bucket", val |-> ""]
       /\ NodeOf("Bucket").kind = "s3.Bucket"
       /\ Len(behaviors) = 1
       /\ behaviors[1].pathPattern = "/api"
       /\ behaviors[1].origin = [tag |-> "HttpOrigin", of |-> "Api", val |-> "url"]
       /\ NodeOf("Api").kind = "apigw.RestApi"

C5_Witness ==
  /\ pc = "done"
  /\ Len(behaviors) = 1
  /\ NodeOf("Distribution").kind = "cloudfront.Distribution"

\* C6: the client's callback URLs and logout URLs are each exactly the
\* literal http://localhost:3000 and the distribution's domain name, and once
\* provisioned the domain entry of both resolves to the value the
\* CloudFrontURL output exports, the domain of the one distribution.
C6_ClientUrls ==
  pc = "done" =>
    LET oAuth == NodeOf("UserPoolClient").props.oAuth IN
    /\ Len(oAuth.callbackUrls) = 2
    /\ Len(oAuth.logoutUrls) = 2
    /\ Elems(oAuth.callbackUrls) = {LocalUrl, CdnDomain}
    /\ Elems(oAuth.logoutUrls) = {LocalUrl, CdnDomain}
    /\ Cardinality(OfKind(nodes, "cloudfront.Distribution")) = 1
    /\ NodeOf(CdnDomain.of).kind = "cloudfront.Distribution"
    /\ Provisioned =>
         \A u \in Elems(oAuth.callbackUrls) \cup Elems(oAuth.logoutUrls) :
           u.tag = "token" =>
             Resolve(u) = Resolve(NodeOf("CloudFrontURL").props.value)

C6_Witness ==
  /\ pc = "done"
  /\ Provisioned
  /\ Resolve(NodeOf("UserPoolClient").props.oAuth.logoutUrls[2]) \in
       {g \o ".cloudfront.net" : g \in GeneratedIds}

C8_TableNameBinding ==
  /\ Created("Lambda") =>
       /\ DOMAIN NodeOf("Lambda").props.environment = {"TABLE_NAME"}
       /\ NodeOf("Lambda").props.environment.TABLE_NAME = Attr("Table", "tableName")
       /\ Created("Table")
       /\ OfKind(nodes, "dynamodb.Table") = {IndexOf(nodes, "Table")}
       /\ Provisioned =>
            Resolve(NodeOf("Lambda").props.environment.TABLE_NAME) =
              NodeOf("Table").props.tableName
  /\ ( \/ \E g \in grants : g.principal = "Lambda"
       \/ \E k \in DOMAIN lambdaIntegration : lambdaIntegration[k].handler = "Lambda"
       \/ \E m \in methods : m.handler = "Lambda" )
     => /\ Created("Lambda")
        /\ "TABLE_NAME" \in DOMAIN NodeOf("Lambda").props.environment

C8_Witness ==
  /\ pc = "Api"
  /\ FullAccessGrant("Table", "Lambda") \in grants
  /\ NodeOf("Lambda").props.environment.TABLE_NAME.of = "Table"

\* C9: no two constructs created in the stack scope share a logical name:
\* construction never ends in the scope's duplicate-name error, and the
\* finished scope holds the seven resources and the six outputs under
\* thirteen different names.
C9_UniqueNames ==
  /\ pc # "threw"
  /\ \A i, j \in DOMAIN nodes : nodes[i].id = nodes[j].id => i = j
  /\ pc = "done" =>
       /\ Len(nodes) = 13
       /\ Ids(nodes) =
            {"Bucket", "Table", "Lambda", "Api", "Distribution", "UserPool",
             "UserPoolClient"} \cup OutputIds

C9_Witness ==
  /\ pc = "UserPoolId"
  /\ Created("Bucket")
  /\ Created("BucketName")

\* C10: the bucket is never publicly readable: it is declared with public
\* read access off, and no step, attaching it as the distribution's default
\* origin included, grants read access on it to everyone.
C10_BucketNeverPublic ==
  \A i \in OfKind(nodes, "s3.Bucket") :
    /\ ~ nodes[i].props.publicReadAccess
    /\ \A g \in grants : g.resource = nodes[i].id => g.principal # "*"

C10_Witness ==
  /\ Created("Distribution")
  /\ \E g \in grants : g.resource = "Bucket" /\ g.principal = "Distribution"

====
